---- MODULE Spec2Model ----
(***************************************************************************)
(* Model of the download store of x-spider (src/src/pages/Settings.tsx,    *)
(* lines 147-737): the zustand store holding downloadTasks, creationTasks  *)
(* and autoSyncTaskIds, the aria2-backed download lifecycle, the single    *)
(* task sync with its retry branch, the background poller and the creation *)
(* task scheduler.                                                         *)
(*                                                                         *)
(* JavaScript runs the handlers on one thread; a handler is suspended only *)
(* at an `await`.  Every action below is the code between two awaits of    *)
(* one handler (or a whole synchronous handler).  The daemon (aria2) and   *)
(* the paginated source are the environment: each awaited call either      *)
(* rejects or resolves with a value chosen from a small set.               *)
(***************************************************************************)
EXTENDS Integers, Sequences, FiniteSets, TLC

\* ------------------------------------------------------------------ bounds
MaxGid == 3        \* handles the daemon hands out (gids 1..MaxGid)
MaxTime == 1       \* readings of Date.now() are 0..MaxTime
MaxCalls == 2      \* store calls suspended at an await at the same time
MaxMedia == 2      \* distinct source medias
MaxBatch == 2      \* length of a paramsList / gids argument
MaxCreations == 2  \* creation tasks ever created (nanoid ids 1..MaxCreations)
MaxPages == 2      \* pages the paginated source serves to one Runner
MaxPosts == 1      \* posts on one page
MaxMedias == 2     \* media entries of one post

\* ------------------------------------------------------- program constants
DefaultRetry == 5  \* ariaRetryCountRemains of a prepared task

VARIABLES
  downloadTasks,                   \* DownloadStore.downloadTasks (array)
  autoSyncTaskIds,                 \* DownloadStore.autoSyncTaskIds
  creationTasks,                   \* DownloadStore.creationTasks (array)
  creationTaskAbortControllerMap,  \* the ids the side table has a controller for
  aborted,                         \* the ids whose controller's signal is aborted
  clock,                           \* the value Date.now() returns
  nextGid,                         \* the next handle aria2.addUri returns
  calls,                           \* suspended async store calls, by slot
  poller,                          \* scheduleAutoSyncTasks: timer or tick
  sched,                           \* scheduleCreationTasks: idle callbacks
  runs,                            \* runCreationTask invocations in flight
  nextId,                          \* the next id nanoid() returns
  lastOp                           \* the step just taken and its outcome

dlVars == <<downloadTasks, autoSyncTaskIds, nextGid, calls, poller>>
ctVars == <<creationTasks, creationTaskAbortControllerMap, aborted, sched, runs,
            nextId>>
vars == <<downloadTasks, autoSyncTaskIds, creationTasks,
          creationTaskAbortControllerMap, aborted, clock, nextGid, calls,
          poller, sched, runs, nextId, lastOp>>

NoGid == 0                          \* the empty handle ''
Gids == 1..MaxGid
Medias == 1..MaxMedia
Slots == 1..MaxCalls
\* AriaStatus values the daemon reports in this model
DaemonStatuses == {"active", "error"}

\* errorMessage of a tellStatus answer
errorMessage(status) == IF status = "error" THEN "E" ELSE ""

\* one tellStatus answer for handle gid
AriaAnswer(gid, status) ==
  [gid |-> gid, status |-> status, errorMessage |-> errorMessage(status)]

\* ----------------------------------------------------------- pure helpers
NoTask ==
  [gid |-> NoGid, status |-> "waiting", media |-> 0, error |-> "",
   updatedAt |-> 0, ariaRetryCountRemains |-> 0]

prepareDownloadTask(media, now) ==
  [gid |-> NoGid, status |-> "waiting", media |-> media, error |-> "",
   updatedAt |-> now, ariaRetryCountRemains |-> DefaultRetry]

mergeAriaStatusToDownloadTask(ariaStatus, oldTask, now) ==
  [oldTask EXCEPT !.gid = ariaStatus.gid,
                  !.status = ariaStatus.status,
                  !.error = ariaStatus.errorMessage,
                  !.updatedAt = now]

\* Array.findIndex by gid; 0 stands for -1
findIndex(tasks, gid) ==
  IF \E i \in 1..Len(tasks) : tasks[i].gid = gid
  THEN CHOOSE i \in 1..Len(tasks) :
         /\ tasks[i].gid = gid
         /\ \A j \in 1..(i - 1) : tasks[j].gid # gid
  ELSE 0

\* the gids of the records of an array
GidsOf(tasks) == {tasks[i].gid : i \in 1..Len(tasks)}

\* updateDownloadTask adding the task to the array instead of replacing the
\* record at oldTaskIndex
updateDownloadTaskAppends(tasks, task, now) ==
  LET oldTaskIndex == findIndex(tasks, task.gid) IN
  IF oldTaskIndex = 0 THEN tasks
  ELSE IF tasks[oldTaskIndex].updatedAt > now THEN tasks
  ELSE Append(tasks, task)

\* updateDownloadTask without the updatedAt guard of line 302
updateDownloadTaskNoGuard(tasks, task, now) ==
  LET oldTaskIndex == findIndex(tasks, task.gid) IN
  IF oldTaskIndex = 0 THEN tasks
  ELSE [tasks EXCEPT ![oldTaskIndex] = task]

updateDownloadTask(tasks, task, now) ==
  LET oldTaskIndex == findIndex(tasks, task.gid) IN
  IF oldTaskIndex = 0 THEN tasks
  ELSE IF tasks[oldTaskIndex].updatedAt > now THEN tasks
  ELSE [tasks EXCEPT ![oldTaskIndex] = task]

\* R.fromPairs over [gid, task] pairs: the last task with that gid
newTaskMap(tasks, gid) ==
  LET last == CHOOSE i \in 1..Len(tasks) :
                /\ tasks[i].gid = gid
                /\ \A j \in (i + 1)..Len(tasks) : tasks[j].gid # gid
  IN tasks[last]

\* batchUpdateDownloadTasks without the updatedAt guard of lines 322-324
batchUpdateDownloadTasksNoGuard(oldTasks, tasks) ==
  [i \in 1..Len(oldTasks) |->
     IF oldTasks[i].gid \notin GidsOf(tasks) THEN oldTasks[i]
     ELSE newTaskMap(tasks, oldTasks[i].gid)]

batchUpdateDownloadTasks(oldTasks, tasks) ==
  [i \in 1..Len(oldTasks) |->
     LET oldTask == oldTasks[i] IN
     IF oldTask.gid \notin GidsOf(tasks) THEN oldTask
     ELSE IF newTaskMap(tasks, oldTask.gid).updatedAt < oldTask.updatedAt
          THEN oldTask
          ELSE newTaskMap(tasks, oldTask.gid)]

\* R.filter(v => v.gid !== gid) / R.filter(v => !gids.includes(v.gid))
withoutGids(tasks, gids) ==
  SelectSeq(tasks, LAMBDA v : v.gid \notin gids)

\* ------------------------------------------------------------ call frames
\* A suspended call: the handler (op), the await it is suspended at (pc),
\* who called it (via) and its local variables.
Idle ==
  [op |-> "idle", pc |-> "", via |-> "", gid |-> NoGid,
   now |-> 0, task |-> NoTask, newTask |-> NoTask, params |-> <<>>,
   gids |-> <<>>, tasks |-> <<>>]

\* the handlers suspended at an await: store calls and the poller's tick
InFlight ==
  Cardinality({s \in Slots : calls[s].op # "idle"})
    + (IF poller.pc \in {"tellStatus", "merge"} THEN 1 ELSE 0)

\* a new call can be suspended: fewer than MaxCalls handlers are
HasFreeSlot == InFlight < MaxCalls

\* the slot a new call is suspended in: the lowest idle one
freeSlot ==
  CHOOSE s \in Slots :
    /\ calls[s].op = "idle"
    /\ \A t \in 1..(s - 1) : calls[t].op # "idle"

At(s, op, pc) == calls[s].op = op /\ calls[s].pc = pc

\* what the step just taken was: the handler step, how it ended (what the
\* caller sees), the failure notifications (in-app plus OS pair) it fired,
\* and the handler it ran on behalf of (OpVia)
OpVia(op, res, notified, via) ==
  [op |-> op, res |-> res, notified |-> notified, via |-> via]

Op(op, res, notified) == OpVia(op, res, notified, "")

\* a call that returned at once, with no effect and nothing raised
Returned == Op("return", "ok", 0)

\* a step that ended at an await, or the clock's, with nothing for a caller
\* to see yet
Suspended == Op("await", "ok", 0)

\* ---------------------------------------------------------------- clock
\* Date.now() advances between steps
Tick ==
  /\ clock < MaxTime
  /\ clock' = clock + 1
  /\ lastOp' = Suspended
  /\ UNCHANGED <<dlVars, ctVars>>

\* ------------------------------------------------ createDownloadTask (279)
\* the call, up to the await inside prepareDownloadTask
createDownloadTask(media) ==
  /\ HasFreeSlot
  /\ nextGid <= MaxGid
  /\ calls' = [calls EXCEPT ![freeSlot] =
       [Idle EXCEPT !.op = "createDownloadTask", !.pc = "prepare",
                    !.via = "user", !.params = <<media>>]]
  /\ lastOp' = Suspended
  /\ UNCHANGED <<downloadTasks, autoSyncTaskIds, nextGid, poller, clock, ctVars>>

\* prepareDownloadTask resolves: the task is built, stamped Date.now(), and
\* aria2.addUri is issued
createDownloadTaskPrepare(s) ==
  /\ At(s, "createDownloadTask", "prepare")
  /\ calls' = [calls EXCEPT ![s].pc = "addUri",
                            ![s].task = prepareDownloadTask(Head(calls[s].params), clock)]
  /\ lastOp' = Suspended
  /\ UNCHANGED <<downloadTasks, autoSyncTaskIds, nextGid, poller, clock, ctVars>>

\* aria2.addUri answers: a fresh gid (then tellStatus is issued) or a rejection
createDownloadTaskAddUri(s) ==
  /\ At(s, "createDownloadTask", "addUri")
  /\ \/ /\ nextGid <= MaxGid
        /\ calls' = [calls EXCEPT ![s].pc = "tellStatus",
                                  ![s].task.gid = nextGid]
        /\ nextGid' = nextGid + 1
        /\ lastOp' = Suspended
     \/ /\ calls' = [calls EXCEPT ![s] = Idle]
        /\ nextGid' = nextGid
        /\ lastOp' = Op("createDownloadTask.addUri", "DaemonError", 0)
  /\ UNCHANGED <<downloadTasks, autoSyncTaskIds, poller, clock, ctVars>>

\* createDownloadTask storing the prepared record before the status answer
\* is known, so that a rejected tellStatus leaves it stored
createDownloadTaskTellStatusStoresOnError(s) ==
  /\ At(s, "createDownloadTask", "tellStatus")
  /\ \/ \E status \in DaemonStatuses :
          /\ downloadTasks' =
               Append(downloadTasks, [calls[s].task EXCEPT !.status = status])
          /\ lastOp' = Op("createDownloadTask.tellStatus", "ok", 0)
     \/ /\ downloadTasks' = Append(downloadTasks, calls[s].task)
        /\ lastOp' = Op("createDownloadTask.tellStatus",
                        "DaemonError", 0)
  /\ calls' = [calls EXCEPT ![s] = Idle]
  /\ UNCHANGED <<autoSyncTaskIds, nextGid, poller, clock, ctVars>>

\* aria2.tellStatus answers: the record is stored (lines 289-293), or the
\* rejection surfaces and nothing is stored
createDownloadTaskTellStatus(s) ==
  /\ At(s, "createDownloadTask", "tellStatus")
  /\ \/ \E status \in DaemonStatuses :
          /\ downloadTasks' =
               Append(downloadTasks, [calls[s].task EXCEPT !.status = status])
          /\ lastOp' = OpVia("createDownloadTask.tellStatus", "ok", 0,
                             calls[s].via)
     \/ /\ downloadTasks' = downloadTasks
        /\ lastOp' = Op("createDownloadTask.tellStatus",
                        "DaemonError", 0)
  /\ calls' = [calls EXCEPT ![s] = Idle]
  /\ UNCHANGED <<autoSyncTaskIds, nextGid, poller, clock, ctVars>>

\* ------------------------------------------- batchCreateDownloadTask (332)
\* the paramsList arguments: arrays of at most MaxBatch distinct medias, in
\* the order of their ids
ParamsLists ==
  {l \in UNION {[1..n -> Medias] : n \in 0..MaxBatch} :
     \A i \in 1..Len(l), j \in 1..Len(l) : i < j => l[i] < l[j]}

\* the call: an empty list leaves the loop at once and returns at line 341;
\* otherwise it runs up to the first await of prepareDownloadTask
batchCreateDownloadTask(paramsList) ==
  /\ HasFreeSlot
  /\ nextGid + Len(paramsList) - 1 <= MaxGid
  /\ IF paramsList = <<>>
     THEN /\ calls' = calls
          /\ lastOp' = Returned
     ELSE /\ calls' = [calls EXCEPT ![freeSlot] =
               [Idle EXCEPT !.op = "batchCreateDownloadTask", !.pc = "prepare",
                            !.via = "user", !.params = paramsList]]
          /\ lastOp' = Suspended
  /\ UNCHANGED <<downloadTasks, autoSyncTaskIds, nextGid, poller, clock, ctVars>>

\* one prepareDownloadTask of the loop (lines 335-338) resolves; after the
\* last one the batched aria2.addUri is issued
batchCreateDownloadTaskPrepare(s) ==
  /\ At(s, "batchCreateDownloadTask", "prepare")
  /\ LET rest == Tail(calls[s].params)
         tasks == Append(calls[s].tasks,
                         prepareDownloadTask(Head(calls[s].params), clock))
     IN calls' = [calls EXCEPT ![s].params = rest,
                               ![s].tasks = tasks,
                               ![s].pc = IF rest = <<>> THEN "addUri" ELSE "prepare"]
  /\ lastOp' = Suspended
  /\ UNCHANGED <<downloadTasks, autoSyncTaskIds, nextGid, poller, clock, ctVars>>

\* aria2.batchInvoke answers with one fresh gid per task, in order, or rejects
batchCreateDownloadTaskAddUri(s) ==
  /\ At(s, "batchCreateDownloadTask", "addUri")
  /\ LET n == Len(calls[s].tasks) IN
     \/ /\ nextGid + n - 1 <= MaxGid
        /\ calls' = [calls EXCEPT ![s].pc = "tellStatus",
                                  ![s].gids = [i \in 1..n |-> nextGid + i - 1]]
        /\ nextGid' = nextGid + n
        /\ lastOp' = Suspended
     \/ /\ calls' = [calls EXCEPT ![s] = Idle]
        /\ nextGid' = nextGid
        /\ lastOp' = Op("batchCreateDownloadTask.addUri", "DaemonError", 0)
  /\ UNCHANGED <<downloadTasks, autoSyncTaskIds, poller, clock, ctVars>>

\* aria2.tellStatus(gids) answers: every task gets its gid and the status of
\* that gid and all are stored at once (lines 361-369); or it rejects
batchCreateDownloadTaskTellStatus(s) ==
  /\ At(s, "batchCreateDownloadTask", "tellStatus")
  /\ LET gids == calls[s].gids
         n == Len(calls[s].tasks)
     IN
     \/ \E statusMap \in [1..n -> DaemonStatuses] :
          /\ downloadTasks' = downloadTasks \o
               [i \in 1..n |-> [calls[s].tasks[i] EXCEPT !.gid = gids[i],
                                                         !.status = statusMap[i]]]
          /\ lastOp' = OpVia("batchCreateDownloadTask.tellStatus", "ok", 0,
                             calls[s].via)
     \/ /\ downloadTasks' = downloadTasks
        /\ lastOp' = Op("batchCreateDownloadTask.tellStatus",
                        "DaemonError", 0)
  /\ calls' = [calls EXCEPT ![s] = Idle]
  /\ UNCHANGED <<autoSyncTaskIds, nextGid, poller, clock, ctVars>>

\* ------------------------------------------------ removeDownloadTask (383)
\* removeDownloadTask awaiting aria2.remove before it touches the store, so
\* that a rejection leaves the record in place
removeDownloadTaskAwaitsDaemon(gid, removed) ==
  /\ downloadTasks' = IF removed THEN withoutGids(downloadTasks, {gid})
                      ELSE downloadTasks
  /\ autoSyncTaskIds' = IF removed THEN autoSyncTaskIds \ {gid}
                        ELSE autoSyncTaskIds
  /\ lastOp' = Op("removeDownloadTask",
                  IF removed THEN "ok" ELSE "logged", 0)
  /\ UNCHANGED <<nextGid, calls, poller, clock, ctVars>>

\* aria2.remove is issued and not awaited; its rejection is caught and
\* logged (lines 384-386).  removed: whether the daemon call succeeds.
removeDownloadTask(gid, removed) ==
  /\ downloadTasks' = withoutGids(downloadTasks, {gid})
  /\ autoSyncTaskIds' = autoSyncTaskIds \ {gid}
  /\ lastOp' = Op("removeDownloadTask",
                  IF removed THEN "ok" ELSE "logged", 0)
  /\ UNCHANGED <<nextGid, calls, poller, clock, ctVars>>

\* ------------------------------------------ batchRemoveDownloadTasks (397)
batchRemoveDownloadTasks(gids, removed) ==
  /\ downloadTasks' = withoutGids(downloadTasks, gids)
  /\ lastOp' = Op("batchRemoveDownloadTasks",
                  IF removed THEN "ok" ELSE "logged", 0)
  /\ UNCHANGED <<autoSyncTaskIds, nextGid, calls, poller, clock, ctVars>>

\* ---------------------------------------------------- redownloadTask (414)
\* redownloadTask creating the new download without removing the old record
redownloadTaskKeepsOld(gid) ==
  LET i == findIndex(downloadTasks, gid) IN
  IF i = 0
  THEN /\ lastOp' = Op("redownloadTask", "NotFound", 0)
       /\ UNCHANGED <<dlVars, clock, ctVars>>
  ELSE /\ HasFreeSlot
       /\ calls' = [calls EXCEPT ![freeSlot] =
            [Idle EXCEPT !.op = "createDownloadTask", !.pc = "prepare",
                         !.via = "redownloadTask",
                         !.params = <<downloadTasks[i].media>>]]
       /\ lastOp' = Op("redownloadTask", "called", 0)
       /\ UNCHANGED <<downloadTasks, autoSyncTaskIds, nextGid, poller, clock,
                      ctVars>>

\* NotFound is thrown before anything is touched; otherwise the record is
\* removed (removeDownloadTask, lines 383-396) and createDownloadTask is
\* entered with the old record's media
redownloadTask(gid) ==
  LET i == findIndex(downloadTasks, gid) IN
  IF i = 0
  THEN /\ lastOp' = Op("redownloadTask", "NotFound", 0)
       /\ UNCHANGED <<dlVars, clock, ctVars>>
  ELSE /\ HasFreeSlot
       /\ downloadTasks' = withoutGids(downloadTasks, {gid})
       /\ autoSyncTaskIds' = autoSyncTaskIds \ {gid}
       /\ calls' = [calls EXCEPT ![freeSlot] =
            [Idle EXCEPT !.op = "createDownloadTask", !.pc = "prepare",
                         !.via = "redownloadTask",
                         !.params = <<downloadTasks[i].media>>]]
       /\ lastOp' = Op("redownloadTask", "called", 0)
       /\ UNCHANGED <<nextGid, poller, clock, ctVars>>

\* ----------------------------------------------- batchRedownloadTask (426)
batchRedownloadTask(gids) ==
  LET oldTasks == SelectSeq(downloadTasks, LAMBDA t : t.gid \in gids) IN
  IF oldTasks = <<>>
  THEN /\ lastOp' = Op("batchRedownloadTask", "NotFound", 0)
       /\ UNCHANGED <<dlVars, clock, ctVars>>
  ELSE /\ HasFreeSlot
       /\ downloadTasks' = withoutGids(downloadTasks, gids)
       /\ calls' = [calls EXCEPT ![freeSlot] =
            [Idle EXCEPT !.op = "batchCreateDownloadTask", !.pc = "prepare",
                         !.via = "batchRedownloadTask",
                         !.params = [i \in 1..Len(oldTasks) |-> oldTasks[i].media]]]
       /\ lastOp' = Op("batchRedownloadTask", "called", 0)
       /\ UNCHANGED <<autoSyncTaskIds, nextGid, poller, clock, ctVars>>

\* ------------------------------------------------ setAutoSyncTaskIds (276)
setAutoSyncTaskIds(ids) ==
  /\ autoSyncTaskIds # ids
  /\ autoSyncTaskIds' = ids
  /\ lastOp' = Op("setAutoSyncTaskIds", "ok", 0)
  /\ UNCHANGED <<downloadTasks, nextGid, calls, poller, clock, ctVars>>

\* -------------------------------------------- syncDownloadTaskStatus (441)
\* the call: returns at line 445 when no record has the gid; otherwise keeps
\* the record and Date.now() and issues aria2.tellStatus(gid)
syncDownloadTaskStatus(gid) ==
  LET index == findIndex(downloadTasks, gid) IN
  IF index = 0
  THEN /\ lastOp' = Returned
       /\ UNCHANGED <<dlVars, clock, ctVars>>
  ELSE /\ HasFreeSlot
       /\ calls' = [calls EXCEPT ![freeSlot] =
            [Idle EXCEPT !.op = "syncDownloadTaskStatus", !.pc = "tellStatus",
                         !.via = "user", !.gid = gid, !.now = clock,
                         !.task = downloadTasks[index]]]
       /\ lastOp' = Suspended
       /\ UNCHANGED <<downloadTasks, autoSyncTaskIds, nextGid, poller, clock,
                      ctVars>>

\* aria2.tellStatus(gid) answers (lines 451-494).
\*  - it rejects: the call ends with the rejection;
\*  - error with retries left: the record is removed (removeDownloadTask runs
\*    synchronously) and prepareDownloadTask is awaited; the record of the
\*    step keeps whether the record was still stored;
\*  - error with no retry left: the merged record newTask is built and only
\*    used for the two notifications; the store is not written;
\*  - otherwise mergeAriaStatusToDownloadTask is entered, which stamps
\*    Date.now() and awaits path.basename.
syncDownloadTaskStatusTellStatus(s) ==
  /\ At(s, "syncDownloadTaskStatus", "tellStatus")
  /\ LET task == calls[s].task
         gid == calls[s].gid
     IN
     \/ /\ calls' = [calls EXCEPT ![s] = Idle]
        /\ lastOp' = Op("syncDownloadTaskStatus.tellStatus", "DaemonError", 0)
        /\ UNCHANGED <<downloadTasks, autoSyncTaskIds>>
     \/ /\ task.ariaRetryCountRemains > 0
        /\ downloadTasks' = withoutGids(downloadTasks, {task.gid})
        /\ autoSyncTaskIds' = autoSyncTaskIds \ {task.gid}
        /\ calls' = [calls EXCEPT ![s].pc = "retry.prepare"]
        /\ lastOp' = OpVia("syncDownloadTaskStatus.tellStatus", "retry", 0,
                           IF findIndex(downloadTasks, task.gid) = 0
                           THEN "removed" ELSE "stored")
     \/ /\ ~(task.ariaRetryCountRemains > 0)
        /\ calls' = [calls EXCEPT ![s] = Idle]
        /\ lastOp' = Op("syncDownloadTaskStatus.tellStatus", "exhausted", 1)
        /\ UNCHANGED <<downloadTasks, autoSyncTaskIds>>
     \/ \E status \in DaemonStatuses \ {"error"} :
          /\ calls' = [calls EXCEPT
               ![s].pc = "merge",
               ![s].newTask = mergeAriaStatusToDownloadTask(
                                AriaAnswer(gid, status), task, clock)]
          /\ lastOp' = Suspended
          /\ UNCHANGED <<downloadTasks, autoSyncTaskIds>>
  /\ UNCHANGED <<nextGid, poller, clock, ctVars>>

\* mergeAriaStatusToDownloadTask resolves: updateDownloadTask(newTask, now)
syncDownloadTaskStatusUpdate(s) ==
  /\ At(s, "syncDownloadTaskStatus", "merge")
  /\ downloadTasks' =
       updateDownloadTask(downloadTasks, calls[s].newTask, calls[s].now)
  /\ calls' = [calls EXCEPT ![s] = Idle]
  /\ lastOp' = Op("syncDownloadTaskStatus.update",
       IF findIndex(downloadTasks, calls[s].newTask.gid) = 0 THEN "absent"
       ELSE IF downloadTasks[findIndex(downloadTasks, calls[s].newTask.gid)].updatedAt
                 > calls[s].now
            THEN "newer" ELSE "ok", 0)
  /\ UNCHANGED <<autoSyncTaskIds, nextGid, poller, clock, ctVars>>

\* retry: prepareDownloadTask resolves, the counter is carried forward less
\* one (line 463), aria2.addUri is issued
syncDownloadTaskStatusRetryPrepare(s) ==
  /\ At(s, "syncDownloadTaskStatus", "retry.prepare")
  /\ calls' = [calls EXCEPT
       ![s].pc = "retry.addUri",
       ![s].newTask =
          [prepareDownloadTask(calls[s].task.media, clock) EXCEPT
             !.ariaRetryCountRemains = calls[s].task.ariaRetryCountRemains - 1]]
  /\ lastOp' = Suspended
  /\ UNCHANGED <<downloadTasks, autoSyncTaskIds, nextGid, poller, clock, ctVars>>

\* retry: aria2.addUri answers with a fresh gid, or rejects; on an answer
\* aria2.tellStatus is asked for task.gid (line 471), kept in the frame as
\* the handles of the pending query
syncDownloadTaskStatusRetryAddUri(s) ==
  /\ At(s, "syncDownloadTaskStatus", "retry.addUri")
  /\ \/ /\ nextGid <= MaxGid
        /\ calls' = [calls EXCEPT ![s].pc = "retry.tellStatus",
                                  ![s].newTask.gid = nextGid,
                                  ![s].gids = <<calls[s].task.gid>>]
        /\ nextGid' = nextGid + 1
        /\ lastOp' = Suspended
     \/ /\ calls' = [calls EXCEPT ![s] = Idle]
        /\ nextGid' = nextGid
        /\ lastOp' = Op("syncDownloadTaskStatus.retry.addUri",
                        "DaemonError", 0)
  /\ UNCHANGED <<downloadTasks, autoSyncTaskIds, poller, clock, ctVars>>

\* retry: aria2.tellStatus(task.gid), asked for the failed handle (line 471),
\* answers; its status is written to newTask and newTask is stored
syncDownloadTaskStatusRetryTellStatus(s) ==
  /\ At(s, "syncDownloadTaskStatus", "retry.tellStatus")
  /\ \/ \E status \in DaemonStatuses :
          /\ downloadTasks' =
               Append(downloadTasks, [calls[s].newTask EXCEPT !.status = status])
          /\ lastOp' = Op("syncDownloadTaskStatus.retry.tellStatus", "ok", 0)
     \/ /\ downloadTasks' = downloadTasks
        /\ lastOp' = Op("syncDownloadTaskStatus.retry.tellStatus", "DaemonError", 0)
  /\ calls' = [calls EXCEPT ![s] = Idle]
  /\ UNCHANGED <<autoSyncTaskIds, nextGid, poller, clock, ctVars>>

\* --------------------------------------------- scheduleAutoSyncTasks (707)
PollerTimer ==
  [pc |-> "timer", now |-> 0, ids |-> {}, resultMap |-> <<>>,
   newTasks |-> <<>>]

\* the timer fires: with no ids the next timer is set at once (line 710);
\* otherwise Date.now() is kept and aria2.tellStatus(ids) is issued
scheduleAutoSyncTasks ==
  /\ poller.pc = "timer"
  /\ IF autoSyncTaskIds = {}
     THEN /\ poller' = PollerTimer
          /\ lastOp' = Op("scheduleAutoSyncTasks", "idle", 0)
     ELSE /\ InFlight < MaxCalls
          /\ poller' = [PollerTimer EXCEPT !.pc = "tellStatus", !.now = clock,
                                           !.ids = autoSyncTaskIds]
          /\ lastOp' = Suspended
  /\ UNCHANGED <<downloadTasks, autoSyncTaskIds, nextGid, calls, clock, ctVars>>

\* whether the tick awaits mergeAriaStatusToDownloadTask for some record
\* (lines 722-727)
pollerMerges(tasks, resultMap, now) ==
  \E i \in 1..Len(tasks) :
     /\ ~(tasks[i].updatedAt > now)
     /\ tasks[i].gid \in DOMAIN resultMap
     /\ resultMap[tasks[i].gid] # "absent"

\* the records the tick hands to batchUpdateDownloadTasks (lines 718-729);
\* resultMap[gid] is a status, or "absent" when the answer has no such key
pollerNewTasks(tasks, resultMap, now) ==
  [i \in 1..Len(tasks) |->
     LET oldTask == tasks[i] IN
     IF oldTask.updatedAt > now THEN oldTask
     ELSE IF oldTask.gid \notin DOMAIN resultMap THEN oldTask
     ELSE IF resultMap[oldTask.gid] = "absent" THEN oldTask
     ELSE mergeAriaStatusToDownloadTask(
            AriaAnswer(oldTask.gid, resultMap[oldTask.gid]), oldTask, now)]

\* aria2.tellStatus(ids) answers.  A rejection is not caught: the promise of
\* the tick rejects and line 733 is never reached, so no timer is set.
\* Otherwise the store is read and the merges are awaited (Promise.all).
\* With no record to merge nothing outside the tick is awaited: the records
\* just read are handed back to batchUpdateDownloadTasks, which leaves the
\* store as it is, and the next timer is set.
scheduleAutoSyncTasksTellStatus ==
  /\ poller.pc = "tellStatus"
  /\ \/ /\ poller' = [PollerTimer EXCEPT !.pc = "stopped"]
        /\ lastOp' = Op("scheduleAutoSyncTasks.tellStatus",
                        "DaemonError", 0)
     \/ \E resultMap \in [poller.ids -> DaemonStatuses \cup {"absent"}] :
          IF pollerMerges(downloadTasks, resultMap, poller.now)
          THEN /\ poller' = [PollerTimer EXCEPT
                    !.pc = "merge", !.now = poller.now,
                    !.resultMap = resultMap,
                    !.newTasks =
                       pollerNewTasks(downloadTasks, resultMap, poller.now)]
               /\ lastOp' = Suspended
          ELSE /\ poller' = PollerTimer
               /\ lastOp' = Op("scheduleAutoSyncTasks.tellStatus", "ok", 0)
  /\ UNCHANGED <<downloadTasks, autoSyncTaskIds, nextGid, calls, clock, ctVars>>

\* the merges resolve: batchUpdateDownloadTasks(newTasks), then the next
\* timer is set (lines 731-733)
scheduleAutoSyncTasksMerge ==
  /\ poller.pc = "merge"
  /\ downloadTasks' = batchUpdateDownloadTasks(downloadTasks, poller.newTasks)
  /\ poller' = PollerTimer
  /\ lastOp' = Op("scheduleAutoSyncTasks.merge",
       IF \E i \in 1..Len(downloadTasks) :
            /\ downloadTasks[i].gid \in GidsOf(poller.newTasks)
            /\ newTaskMap(poller.newTasks, downloadTasks[i].gid).updatedAt
                 < downloadTasks[i].updatedAt
       THEN "kept" ELSE "ok", 0)
  /\ UNCHANGED <<autoSyncTaskIds, nextGid, calls, clock, ctVars>>

\* ------------------------------------------------- creation tasks (497-534)
\* the filter of a creation task: the media types it keeps
Filters == {[mediaTypes |-> {"photo"}]}

\* a media entry of a post: its type, and whether sameFileSkip is on and the
\* file it resolves to exists (line 616)
MediaEntries == [type : {"photo", "video"}, exists : BOOLEAN]

\* a post: createdAt relative to the filter's date range ("none": no date,
\* "old": not after since, "in": inside, "new": not before until), and its
\* medias (hasMedias FALSE: the field is undefined)
Posts ==
  [createdAt : {"none", "old", "in", "new"}, hasMedias : BOOLEAN,
   medias : UNION {[1..n -> MediaEntries] : n \in 0..MaxMedias}]

\* a page of the source: its posts and whether its cursor is null
Pages ==
  {pg \in [twitterPosts : UNION {[1..n -> Posts] : n \in 0..MaxPosts},
           cursorNull : BOOLEAN] :
     \A i \in 1..Len(pg.twitterPosts) :
        ~pg.twitterPosts[i].hasMedias => pg.twitterPosts[i].medias = <<>>}

\* getMediaCounts (lines 555-557)
getMediaCounts(posts) ==
  Cardinality({ij \in (1..Len(posts)) \X (1..MaxMedias) :
                 ij[2] <= Len(posts[ij[1]].medias)})

\* the posts kept by the filter of lines 570-582
filteredPosts(posts) ==
  SelectSeq(posts, LAMBDA post :
     /\ post.hasMedias
     /\ post.createdAt \in {"none", "in"})

\* the medias of the kept posts that pass the media-type filter (601-608)
filteredMedias(posts, filter) ==
  {ij \in (1..Len(filteredPosts(posts))) \X (1..MaxMedias) :
     /\ ij[2] <= Len(filteredPosts(posts)[ij[1]].medias)
     /\ filteredPosts(posts)[ij[1]].medias[ij[2]].type \in filter.mediaTypes}

\* those of them skipped because the file exists (616-620)
sameFileSkipped(posts, filter) ==
  {ij \in filteredMedias(posts, filter) :
     filteredPosts(posts)[ij[1]].medias[ij[2]].exists}

\* the length of paramsList after the loop of lines 600-626
paramsListLength(posts, filter) ==
  Cardinality(filteredMedias(posts, filter) \ sameFileSkipped(posts, filter))

\* skipCount after the page (lines 584-586 and 617)
skipCountAfter(skipCount, posts, filter) ==
  skipCount + (getMediaCounts(posts) - getMediaCounts(filteredPosts(posts)))
            + Cardinality(sameFileSkipped(posts, filter))

\* the Runner's local now after a page (line 568), as its position relative
\* to since: the createdAt of the last post when there is one and it has a
\* date, the previous value otherwise
nowAfter(now, posts) ==
  IF posts = <<>> \/ posts[Len(posts)].createdAt = "none"
  THEN now
  ELSE IF posts[Len(posts)].createdAt = "old" THEN "notAfterSince"
  ELSE "afterSince"

\* the loop condition of line 559
loopCondition(r) ==
  r.nextCursor # "null" /\ r.now = "afterSince"

\* filteredCount (lines 584-585)
filteredCount(posts) ==
  getMediaCounts(posts) - getMediaCounts(filteredPosts(posts))

\* what the Runner takes from a page under a filter: the media entries on
\* the page, filteredCount, the number of medias the loop of lines 611-625
\* awaits on (filtered), how many of them are skipped because the file
\* exists, the length of paramsList, and the local now after the page when
\* it was after since before
PageOutcomes ==
  {[filter |-> filter,
    cursorNull |-> page.cursorNull,
    medias |-> getMediaCounts(page.twitterPosts),
    dropped |-> filteredCount(page.twitterPosts),
    filtered |-> Cardinality(filteredMedias(page.twitterPosts, filter)),
    exists |-> Cardinality(sameFileSkipped(page.twitterPosts, filter)),
    n |-> paramsListLength(page.twitterPosts, filter),
    now |-> nowAfter("afterSince", page.twitterPosts)] : filter \in Filters, page \in Pages}

createCreationTask(filter) ==
  /\ nextId <= MaxCreations
  /\ nextId' = nextId + 1
  /\ creationTaskAbortControllerMap' = creationTaskAbortControllerMap \cup {nextId}
  /\ creationTasks' = Append(creationTasks,
       [id |-> nextId, filter |-> filter, status |-> "waiting",
        completeCount |-> 0, skipCount |-> 0])
  /\ lastOp' = Op("createCreationTask", "ok", 0)
  /\ UNCHANGED <<dlVars, clock, aborted, sched, runs>>

\* removeCreationTask leaving the aborted controller in the side table
removeCreationTaskFromKeepsToken(tasks, id) ==
  IF id \notin creationTaskAbortControllerMap
  THEN /\ creationTasks' = tasks
       /\ UNCHANGED <<creationTaskAbortControllerMap, aborted>>
  ELSE /\ aborted' = aborted \cup {id}
       /\ creationTaskAbortControllerMap' = creationTaskAbortControllerMap
       /\ creationTasks' = SelectSeq(tasks, LAMBDA v : v.id # id)

\* removeCreationTask(id) run on the queue as it stands (tasks): nothing
\* without a controller for id; otherwise the controller is aborted and
\* deleted and the task filtered out (lines 516-526)
removeCreationTaskFrom(tasks, id) ==
  IF id \notin creationTaskAbortControllerMap
  THEN /\ creationTasks' = tasks
       /\ UNCHANGED <<creationTaskAbortControllerMap, aborted>>
  ELSE /\ aborted' = aborted \cup {id}
       /\ creationTaskAbortControllerMap' = creationTaskAbortControllerMap \ {id}
       /\ creationTasks' = SelectSeq(tasks, LAMBDA v : v.id # id)

removeCreationTask(id) ==
  /\ removeCreationTaskFrom(creationTasks, id)
  /\ lastOp' = IF id \in creationTaskAbortControllerMap
               THEN Op("removeCreationTask", "ok", 0) ELSE Returned
  /\ UNCHANGED <<dlVars, clock, sched, runs, nextId>>

\* updateCreationTask replacing every task, whatever its id
updateCreationTaskAnyId(tasks, task) ==
  [i \in 1..Len(tasks) |-> task]

updateCreationTask(tasks, task) ==
  [i \in 1..Len(tasks) |-> IF tasks[i].id = task.id THEN task ELSE tasks[i]]

\* the youngest task of the queue
last(tasks) ==
  tasks[Len(tasks)]

\* R.head (line 668): the oldest task of the queue
head(tasks) ==
  Head(tasks)

\* ---------------------------------------------- scheduleCreationTasks (652)
\* The frame of a Runner holds its locals and, for the record, the media
\* entries of the pages it has fetched (seen).
\* One pending idle callback runs.  It reschedules itself at once when the
\* queue is empty, when a task is active, or when the head task's controller
\* is aborted (the task is then removed); otherwise it marks the head task
\* active, publishes it and enters runCreationTask, which runs to its first
\* await (the fetch of line 565): the loop condition holds at entry for a
\* date range that starts before the present, and the signal was just seen
\* not aborted.
scheduleCreationTasks ==
  /\ sched > 0
  /\ IF creationTasks = <<>>
     THEN /\ lastOp' = Op("scheduleCreationTasks", "empty", 0)
          /\ UNCHANGED ctVars
     ELSE IF \E i \in 1..Len(creationTasks) : creationTasks[i].status = "active"
     THEN /\ lastOp' = Op("scheduleCreationTasks", "busy", 0)
          /\ UNCHANGED ctVars
     ELSE LET task == head(creationTasks) IN
          IF task.id \in aborted
          THEN /\ removeCreationTaskFrom(creationTasks, task.id)
               /\ lastOp' = Op("scheduleCreationTasks", "aborted", 0)
               /\ UNCHANGED <<sched, runs, nextId>>
          ELSE LET active == [task EXCEPT !.status = "active"] IN
               /\ creationTasks' = updateCreationTask(creationTasks, active)
               /\ runs' = runs \cup
                    {[task |-> active, pc |-> "fetch", completeCount |-> 0,
                      skipCount |-> 0, pages |-> 0, n |-> 0, exists |-> 0,
                      nextCursor |-> "undefined", now |-> "afterSince",
                      seen |-> 0]}
               /\ sched' = sched - 1
               /\ lastOp' = Op("scheduleCreationTasks", "run", 0)
               /\ UNCHANGED <<creationTaskAbortControllerMap, aborted, nextId>>
  /\ UNCHANGED <<dlVars, clock>>

\* scheduleCreationTasks without the catch of lines 687-698: a Runner that
\* throws leaves the task in the queue, notifies nothing, and no callback is
\* requested
runCreationTaskSettledUncaught(r, tasks, how) ==
  /\ IF how = "failed"
     THEN /\ creationTasks' = tasks
          /\ UNCHANGED <<creationTaskAbortControllerMap, aborted>>
     ELSE removeCreationTaskFrom(tasks, r.task.id)
  /\ runs' = runs \ {r}
  /\ sched' = IF how = "failed" THEN sched ELSE sched + 1
  /\ lastOp' = OpVia("scheduleCreationTasks.settled", how, 0, r.pc)
  /\ UNCHANGED <<dlVars, clock, nextId>>

\* runCreationTask has settled, the queue standing at tasks (lines 685-700):
\* the task is removed, a failure is notified, and the next idle callback is
\* requested.  how is "failed" when the Runner threw, "cancelled" when it
\* returned on seeing its signal aborted (lines 560, 566, 647), "completed"
\* when its loop condition failed; the record of the step keeps the await
\* the Runner was resumed from.
runCreationTaskSettled(r, tasks, how) ==
  /\ removeCreationTaskFrom(tasks, r.task.id)
  /\ runs' = runs \ {r}
  /\ sched' = sched + 1
  /\ lastOp' = OpVia("scheduleCreationTasks.settled", how,
                     IF how = "failed" THEN 1 ELSE 0, r.pc)
  /\ UNCHANGED <<dlVars, clock, nextId>>

\* the queue after the Runner published the counters of frame r (lines 590,
\* 631, 641)
published(r) ==
  updateCreationTask(creationTasks,
    [r.task EXCEPT !.completeCount = r.completeCount,
                   !.skipCount = r.skipCount])

\* the Runner goes on with frame r2, suspended at its next await
runCreationTaskGoesOn(r, r2, tasks, res) ==
  /\ creationTasks' = tasks
  /\ runs' = (runs \ {r}) \cup {r2}
  /\ lastOp' = Op("runCreationTask", res, 0)
  /\ UNCHANGED <<dlVars, clock, creationTaskAbortControllerMap, aborted, sched,
                 nextId>>

\* the loop of line 559 tested on the cursor alone
runCreationTaskLoopIgnoresDate(r, r2, tasks) ==
  IF r2.nextCursor = "null"
  THEN runCreationTaskSettled(r, tasks, "completed")
  ELSE IF r.task.id \in aborted
  THEN runCreationTaskSettled(r, tasks, "cancelled")
  ELSE runCreationTaskGoesOn(r, [r2 EXCEPT !.pc = "fetch"], tasks, "fetch")

\* the Runner is back at the head of its loop with frame r2, the queue
\* standing at tasks (lines 559-565): it leaves when the loop condition
\* fails, returns when the signal is aborted, and fetches otherwise
runCreationTaskLoop(r, r2, tasks) ==
  IF ~loopCondition(r2)
  THEN runCreationTaskSettled(r, tasks, "completed")
  ELSE IF r.task.id \in aborted
  THEN runCreationTaskSettled(r, tasks, "cancelled")
  ELSE runCreationTaskGoesOn(r, [r2 EXCEPT !.pc = "fetch"], tasks, "fetch")

\* runCreationTaskFetch without the check of line 566: the page of an
\* aborted task is processed like any other
runCreationTaskFetchUnchecked(r) ==
  /\ r \in runs
  /\ r.pc = "fetch"
  /\ \/ runCreationTaskSettled(r, creationTasks, "failed")
     \/ \E page \in PageOutcomes :
          /\ page.filter = r.task.filter
          /\ r.pages + 1 = MaxPages => page.cursorNull
          /\ LET r2 == [r EXCEPT
                          !.pages = r.pages + 1,
                          !.seen = r.seen + page.medias,
                          !.nextCursor =
                             IF page.cursorNull THEN "null" ELSE "cursor",
                          !.now = page.now,
                          !.skipCount = r.skipCount + page.dropped,
                          !.n = page.n,
                          !.exists = page.exists]
             IN IF page.filtered > 0
                THEN runCreationTaskGoesOn(r, [r2 EXCEPT !.pc = "prepare"],
                                           creationTasks, "prepare")
                ELSE runCreationTaskLoop(r, r2, published(r2))

\* -------------------------------------------------- runCreationTask (537)
\* the fetch of line 565 settles.  A rejection leaves runCreationTask; an
\* aborted signal breaks the loop (line 566); otherwise the posts are
\* filtered and the dropped entries counted (lines 567-586).  With no media
\* to prepare, the counters are published and the loop goes on (lines
\* 589-596, 630-637); otherwise the Runner is suspended in the awaits of
\* lines 612-616.
runCreationTaskFetch(r) ==
  /\ r \in runs
  /\ r.pc = "fetch"
  /\ \/ runCreationTaskSettled(r, creationTasks, "failed")
     \/ /\ r.task.id \in aborted
        /\ runCreationTaskSettled(r, creationTasks, "cancelled")
     \/ /\ r.task.id \notin aborted
        /\ \E page \in PageOutcomes :
             /\ page.filter = r.task.filter
             /\ r.pages + 1 = MaxPages => page.cursorNull
             /\ LET r2 == [r EXCEPT
                             !.pages = r.pages + 1,
                             !.seen = r.seen + page.medias,
                             !.nextCursor =
                             IF page.cursorNull THEN "null" ELSE "cursor",
                          !.now = page.now,
                             !.skipCount = r.skipCount + page.dropped,
                             !.n = page.n,
                             !.exists = page.exists]
                IN IF page.filtered > 0
                   THEN runCreationTaskGoesOn(r, [r2 EXCEPT !.pc = "prepare"],
                                              creationTasks, "prepare")
                   ELSE runCreationTaskLoop(r, r2, published(r2))

\* the awaits of lines 612-616 have settled for every media of the page.  A
\* rejection leaves runCreationTask; otherwise the existing files are
\* counted as skipped (line 617) and, without looking at the signal, either
\* the counters are published and the loop goes on (lines 630-637) or
\* batchCreateDownloadTask(paramsList) is awaited (line 639).
runCreationTaskPrepare(r) ==
  /\ r \in runs
  /\ r.pc = "prepare"
  /\ \/ runCreationTaskSettled(r, creationTasks, "failed")
     \/ LET r2 == [r EXCEPT !.skipCount = r.skipCount + r.exists,
                            !.exists = 0]
        IN IF r.n > 0
           THEN runCreationTaskGoesOn(r, [r2 EXCEPT !.pc = "submit"],
                                      creationTasks, "submit")
           ELSE runCreationTaskLoop(r, r2, published(r2))

\* batchCreateDownloadTask(paramsList) settles (lines 639-647).  A rejection
\* leaves runCreationTask; otherwise completeCount grows by the length of
\* paramsList, the counters are published, and the loop ends when the signal
\* is aborted or its condition fails.
runCreationTaskSubmit(r) ==
  /\ r \in runs
  /\ r.pc = "submit"
  /\ \/ runCreationTaskSettled(r, creationTasks, "failed")
     \/ LET r2 == [r EXCEPT !.completeCount = r.completeCount + r.n,
                            !.n = 0]
        IN IF r.task.id \in aborted
           THEN runCreationTaskSettled(r, published(r2), "cancelled")
           ELSE runCreationTaskLoop(r, r2, published(r2))

\* ------------------------------------------------------------------ Init
\* the store after construction (lines 240, 271-278, 497)
Init ==
  /\ downloadTasks = <<>>
  /\ nextGid = Len(downloadTasks) + 1
  /\ autoSyncTaskIds = {}
  /\ clock = 0
  /\ calls = [s \in Slots |-> Idle]
  /\ poller = PollerTimer
  /\ creationTasks = <<>>
  /\ creationTaskAbortControllerMap = {}
  /\ aborted = {}
  /\ sched = 1
  /\ runs = {}
  /\ nextId = 1
  /\ lastOp = Op("init", "ok", 0)

\* the gids arguments: sets of at most MaxBatch handles
GidSets == {g \in SUBSET Gids : Cardinality(g) <= MaxBatch}

\* The download lifecycle: every create, remove and redownload operation,
\* called in any order and interleaved at their awaits.
Next ==
  \/ \E media \in Medias : createDownloadTask(media)
  \/ \E s \in Slots : createDownloadTaskPrepare(s)
  \/ \E s \in Slots : createDownloadTaskAddUri(s)
  \/ \E s \in Slots : createDownloadTaskTellStatus(s)
  \/ \E paramsList \in ParamsLists : batchCreateDownloadTask(paramsList)
  \/ \E s \in Slots : batchCreateDownloadTaskPrepare(s)
  \/ \E s \in Slots : batchCreateDownloadTaskAddUri(s)
  \/ \E s \in Slots : batchCreateDownloadTaskTellStatus(s)
  \/ \E gid \in Gids, removed \in BOOLEAN : removeDownloadTask(gid, removed)
  \/ \E gids \in GidSets, removed \in BOOLEAN :
       batchRemoveDownloadTasks(gids, removed)
  \/ \E gid \in Gids : redownloadTask(gid)
  \/ \E gids \in GidSets : batchRedownloadTask(gids)

Spec == Init /\ [][Next]_vars

\* ----------------------------------------------------------------- handles
\* Every operation that stores or replaces a record: creates (of media 1,
\* alone or in a batch with media 2), removal, redownload, the single-task
\* sync with its retries, and the poller, interleaved at their awaits.
NextStore ==
  \/ createDownloadTask(1)
  \/ \E s \in Slots : createDownloadTaskPrepare(s)
  \/ \E s \in Slots : createDownloadTaskAddUri(s)
  \/ \E s \in Slots : createDownloadTaskTellStatus(s)
  \/ \E paramsList \in {l \in ParamsLists : Len(l) = MaxBatch} :
       batchCreateDownloadTask(paramsList)
  \/ \E s \in Slots : batchCreateDownloadTaskPrepare(s)
  \/ \E s \in Slots : batchCreateDownloadTaskAddUri(s)
  \/ \E s \in Slots : batchCreateDownloadTaskTellStatus(s)
  \/ \E gid \in Gids : removeDownloadTask(gid, TRUE)
  \/ \E gid \in Gids : redownloadTask(gid)
  \/ \E gid \in Gids : syncDownloadTaskStatus(gid)
  \/ \E s \in Slots : syncDownloadTaskStatusTellStatus(s)
  \/ \E s \in Slots : syncDownloadTaskStatusUpdate(s)
  \/ \E s \in Slots : syncDownloadTaskStatusRetryPrepare(s)
  \/ \E s \in Slots : syncDownloadTaskStatusRetryAddUri(s)
  \/ \E s \in Slots : syncDownloadTaskStatusRetryTellStatus(s)
  \/ setAutoSyncTaskIds(GidsOf(downloadTasks))
  \/ scheduleAutoSyncTasks
  \/ scheduleAutoSyncTasksTellStatus
  \/ scheduleAutoSyncTasksMerge

\* the store after construction, the daemon having handed out handle 1 for
\* a download that is no longer in the store
InitStore ==
  /\ downloadTasks = <<>>
  /\ nextGid = 2
  /\ autoSyncTaskIds = {}
  /\ clock = 0
  /\ calls = [s \in Slots |-> Idle]
  /\ poller = PollerTimer
  /\ creationTasks = <<>>
  /\ creationTaskAbortControllerMap = {}
  /\ aborted = {}
  /\ sched = 1
  /\ runs = {}
  /\ nextId = 1
  /\ lastOp = Op("init", "ok", 0)

SpecStore == InitStore /\ [][NextStore]_vars

\* ------------------------------------------------------------------ retries
\* A store holding one record, left by earlier creates and retries: handle 1,
\* any retry counter.
InitRetry ==
  /\ \E r \in 0..DefaultRetry :
       downloadTasks =
         <<[gid |-> 1, status |-> "active", media |-> 1, error |-> "",
            updatedAt |-> 0, ariaRetryCountRemains |-> r]>>
  /\ nextGid = 2
  /\ autoSyncTaskIds = {}
  /\ clock = 0
  /\ calls = [s \in Slots |-> Idle]
  /\ poller = PollerTimer
  /\ creationTasks = <<>>
  /\ creationTaskAbortControllerMap = {}
  /\ aborted = {}
  /\ sched = 1
  /\ runs = {}
  /\ nextId = 1
  /\ lastOp = Op("init", "ok", 0)

\* The single-task sync with its retries, and removal, interleaved at their
\* awaits while Date.now() advances.
NextRetry ==
  \/ Tick
  \/ \E gid \in Gids, removed \in BOOLEAN : removeDownloadTask(gid, removed)
  \/ \E gid \in Gids : syncDownloadTaskStatus(gid)
  \/ \E s \in Slots : syncDownloadTaskStatusTellStatus(s)
  \/ \E s \in Slots : syncDownloadTaskStatusUpdate(s)
  \/ \E s \in Slots : syncDownloadTaskStatusRetryPrepare(s)
  \/ \E s \in Slots : syncDownloadTaskStatusRetryAddUri(s)
  \/ \E s \in Slots : syncDownloadTaskStatusRetryTellStatus(s)

SpecRetry == InitRetry /\ [][NextRetry]_vars

\* ------------------------------------------------------------ reconciliation
\* A store holding two records whose retries are used up, handles 1 and 2.
InitSync ==
  /\ downloadTasks =
       [i \in 1..2 |->
          [gid |-> i, status |-> "active", media |-> i, error |-> "",
           updatedAt |-> 0, ariaRetryCountRemains |-> 0]]
  /\ nextGid = 3
  /\ autoSyncTaskIds = {}
  /\ clock = 0
  /\ calls = [s \in Slots |-> Idle]
  /\ poller = PollerTimer
  /\ creationTasks = <<>>
  /\ creationTaskAbortControllerMap = {}
  /\ aborted = {}
  /\ sched = 1
  /\ runs = {}
  /\ nextId = 1
  /\ lastOp = Op("init", "ok", 0)

\* The poller, the single-task sync and removal, interleaved at their awaits
\* while Date.now() advances.
NextSync ==
  \/ Tick
  \/ \E gid \in Gids, removed \in BOOLEAN : removeDownloadTask(gid, removed)
  \/ \E ids \in SUBSET GidsOf(downloadTasks) : setAutoSyncTaskIds(ids)
  \/ \E gid \in Gids : syncDownloadTaskStatus(gid)
  \/ \E s \in Slots : syncDownloadTaskStatusTellStatus(s)
  \/ \E s \in Slots : syncDownloadTaskStatusUpdate(s)
  \/ scheduleAutoSyncTasks
  \/ scheduleAutoSyncTasksTellStatus
  \/ scheduleAutoSyncTasksMerge

SpecSync == InitSync /\ [][NextSync]_vars

\* ---------------------------------------------------------------------------
\* The creation queue, its Scheduler and its Runner.
NextCreation ==
  \/ \E filter \in Filters : createCreationTask(filter)
  \/ \E id \in 1..MaxCreations : removeCreationTask(id)
  \/ scheduleCreationTasks
  \/ \E r \in runs : runCreationTaskFetch(r)
  \/ \E r \in runs : runCreationTaskPrepare(r)
  \/ \E r \in runs : runCreationTaskSubmit(r)

SpecCreation == Init /\ [][NextCreation]_vars

\* the same, with what the platform guarantees: a requested idle callback
\* runs, and an awaited fetch or batchCreateDownloadTask settles
SpecCreationFair ==
  /\ Init
  /\ [][NextCreation]_vars
  /\ WF_vars(scheduleCreationTasks)
  /\ WF_vars(\E r \in runs : runCreationTaskFetch(r))
  /\ WF_vars(\E r \in runs : runCreationTaskPrepare(r))
  /\ WF_vars(\E r \in runs : runCreationTaskSubmit(r))

\* --------------------------------------------------------------- redownload
\* A store holding one record that was resubmitted at least once (its
\* counter is below the default), under the download lifecycle.
InitRedownload ==
  /\ InitRetry
  /\ downloadTasks[1].ariaRetryCountRemains < DefaultRetry

SpecRedownload == InitRedownload /\ [][Next]_vars

\* ---------------------------------------------------------------- auto-sync
\* Two stored records, the first with a retry left; the handles opted into
\* polling are chosen among the stored ones, and records are removed,
\* redownloaded and retried, one by one and in batches.
InitAutoSync ==
  /\ downloadTasks =
       [i \in 1..2 |->
          [gid |-> i, status |-> "active", media |-> i, error |-> "",
           updatedAt |-> 0, ariaRetryCountRemains |-> 2 - i]]
  /\ nextGid = 3
  /\ autoSyncTaskIds = {}
  /\ clock = 0
  /\ calls = [s \in Slots |-> Idle]
  /\ poller = PollerTimer
  /\ creationTasks = <<>>
  /\ creationTaskAbortControllerMap = {}
  /\ aborted = {}
  /\ sched = 1
  /\ runs = {}
  /\ nextId = 1
  /\ lastOp = Op("init", "ok", 0)

NextAutoSync ==
  \/ \E ids \in SUBSET GidsOf(downloadTasks) : setAutoSyncTaskIds(ids)
  \/ \E gid \in Gids, removed \in BOOLEAN : removeDownloadTask(gid, removed)
  \/ \E gids \in GidSets, removed \in BOOLEAN :
       batchRemoveDownloadTasks(gids, removed)
  \/ \E gid \in Gids : redownloadTask(gid)
  \/ \E gids \in GidSets : batchRedownloadTask(gids)
  \/ \E s \in Slots : createDownloadTaskPrepare(s)
  \/ \E s \in Slots : createDownloadTaskAddUri(s)
  \/ \E s \in Slots : createDownloadTaskTellStatus(s)
  \/ \E s \in Slots : batchCreateDownloadTaskPrepare(s)
  \/ \E s \in Slots : batchCreateDownloadTaskAddUri(s)
  \/ \E s \in Slots : batchCreateDownloadTaskTellStatus(s)
  \/ \E gid \in Gids : syncDownloadTaskStatus(gid)
  \/ \E s \in Slots : syncDownloadTaskStatusTellStatus(s)
  \/ \E s \in Slots : syncDownloadTaskStatusUpdate(s)
  \/ \E s \in Slots : syncDownloadTaskStatusRetryPrepare(s)
  \/ \E s \in Slots : syncDownloadTaskStatusRetryAddUri(s)
  \/ \E s \in Slots : syncDownloadTaskStatusRetryTellStatus(s)

SpecAutoSync == InitAutoSync /\ [][NextAutoSync]_vars

\* ===========================================================================
\* Properties
\* ===========================================================================

\* C1: in every reachable state of the download store no two records of
\* downloadTasks share the same non-empty handle, the daemon returning a
\* fresh handle for every addUri.
C1HandlesUnique ==
  \A i \in 1..Len(downloadTasks), j \in 1..Len(downloadTasks) :
     (i # j /\ downloadTasks[i].gid # NoGid)
        => downloadTasks[i].gid # downloadTasks[j].gid

\* two records are stored, one of them merged by the poller, and a sync has
\* just replaced a record
C1Witness ==
  /\ Len(downloadTasks) = 2
  /\ lastOp = Op("syncDownloadTaskStatus.update", "ok", 0)
  /\ \E i \in 1..2 : downloadTasks[i].status = "error"

\* C2: updateDownloadTask(task, now) leaves downloadTasks unchanged when the
\* stored record with the task's handle has updatedAt > now and when no
\* record has that handle - for every task and now, and in the step of
\* syncDownloadTaskStatus that resumes after its daemon query.
C2MergeGuard ==
  /\ [](\A now \in 0..MaxTime, gid \in Gids, status \in DaemonStatuses :
          LET i == findIndex(downloadTasks, gid)
              task == mergeAriaStatusToDownloadTask(
                        AriaAnswer(gid, status),
                        IF i = 0 THEN NoTask ELSE downloadTasks[i], MaxTime)
          IN (i = 0 \/ downloadTasks[i].updatedAt > now)
               => updateDownloadTask(downloadTasks, task, now) = downloadTasks)
  /\ [][\A s \in Slots :
          syncDownloadTaskStatusUpdate(s) =>
            LET i == findIndex(downloadTasks, calls[s].newTask.gid) IN
            (i = 0 \/ downloadTasks[i].updatedAt > calls[s].now)
               => downloadTasks' = downloadTasks]_vars

\* a sync has just resumed and found the record stamped later than its now
C2Witness ==
  /\ lastOp = Op("syncDownloadTaskStatus.update", "newer", 0)
  /\ \E i \in 1..Len(downloadTasks) :
       /\ downloadTasks[i].updatedAt > 0
       /\ downloadTasks[i].status = "active"

C4ExhaustedBecomesError ==
  [][\A s \in Slots :
       (syncDownloadTaskStatusTellStatus(s) /\ lastOp'.res = "exhausted") =>
          /\ lastOp'.notified = 1
          /\ nextGid' = nextGid
          /\ calls'[s] = Idle
          /\ LET i == findIndex(downloadTasks', calls[s].gid) IN
             i # 0 =>
               /\ downloadTasks'[i].status = "error"
               /\ downloadTasks'[i].error = errorMessage("error")]_vars

\* the daemon has just reported the error of a record without retries left,
\* and the stored record is still active with no error text
C4Witness ==
  /\ lastOp = Op("syncDownloadTaskStatus.tellStatus", "exhausted", 1)
  /\ \E i \in 1..Len(downloadTasks) :
       /\ downloadTasks[i].ariaRetryCountRemains = 0
       /\ downloadTasks[i].status = "active"
       /\ downloadTasks[i].error = ""

\* C4, the part the code keeps: no resubmission, one notification, the store
\* not written
C4NoResubmission ==
  [][\A s \in Slots :
       (syncDownloadTaskStatusTellStatus(s) /\ lastOp'.res = "exhausted") =>
          /\ lastOp'.notified = 1
          /\ nextGid' = nextGid
          /\ calls'[s] = Idle
          /\ downloadTasks' = downloadTasks]_vars

C5Countdown ==
  /\ [](\A i \in 1..Len(downloadTasks) :
          downloadTasks[i].ariaRetryCountRemains >= 0)
  /\ [][\A s \in Slots :
          /\ (syncDownloadTaskStatusRetryTellStatus(s) /\ lastOp'.res = "ok") =>
               /\ Len(downloadTasks') = Len(downloadTasks) + 1
               /\ LET newTask == downloadTasks'[Len(downloadTasks')] IN
                  /\ newTask.ariaRetryCountRemains =
                       calls[s].task.ariaRetryCountRemains - 1
                  /\ newTask.gid \notin GidsOf(downloadTasks) \cup {NoGid}
                  /\ newTask.gid # calls[s].task.gid
                  /\ newTask.media = calls[s].task.media
               /\ calls[s].task.gid \notin GidsOf(downloadTasks')
          /\ (syncDownloadTaskStatusTellStatus(s)
                /\ calls[s].task.ariaRetryCountRemains = 0) =>
               /\ calls'[s].pc \notin {"retry.prepare", "retry.addUri",
                                       "retry.tellStatus"}
               /\ nextGid' = nextGid
               /\ downloadTasks' = downloadTasks]_vars

C6OneActive ==
  /\ Cardinality({i \in 1..Len(creationTasks) :
                    creationTasks[i].status = "active"}) <= 1
  /\ Cardinality(runs) <= 1
  /\ sched + Cardinality(runs) = 1

\* two tasks are queued, one active and one waiting, and the Runner of the
\* active one has just published its counters
C6Witness ==
  /\ Len(creationTasks) = 2
  /\ creationTasks[1].status = "active"
  /\ creationTasks[2].status = "waiting"
  /\ creationTasks[1].skipCount > 0
  /\ runs # {}
  /\ lastOp = Op("runCreationTask", "fetch", 0)

\* C7: a daemon failure in createDownloadTask or batchCreateDownloadTask, at
\* addUri or at the status query, ends the call with the failure and leaves
\* downloadTasks unchanged; a batch that succeeds stores all its records in
\* one step; every stored record has a non-empty handle.
C7FailureStoresNothing ==
  /\ [](\A i \in 1..Len(downloadTasks) : downloadTasks[i].gid # NoGid)
  /\ [][\A s \in Slots :
          /\ (/\ calls[s].op \in {"createDownloadTask", "batchCreateDownloadTask"}
              /\ calls[s].pc \in {"addUri", "tellStatus"}
              /\ calls'[s] = Idle
              /\ lastOp'.res = "DaemonError") =>
               downloadTasks' = downloadTasks
          /\ (/\ calls[s].op \in {"createDownloadTask", "batchCreateDownloadTask"}
              /\ calls'[s] = Idle) =>
               \/ lastOp'.res = "DaemonError" /\ downloadTasks' = downloadTasks
               \/ /\ lastOp'.res = "ok"
                  /\ calls[s].pc = "tellStatus"
                  /\ Len(downloadTasks') = Len(downloadTasks)
                       + (IF calls[s].op = "createDownloadTask" THEN 1
                          ELSE Len(calls[s].tasks))
                  /\ SubSeq(downloadTasks', 1, Len(downloadTasks)) = downloadTasks
         ]_vars

\* the status query of a batch has just failed with a record in the store
C7Witness ==
  /\ lastOp = Op("batchCreateDownloadTask.tellStatus", "DaemonError", 0)
  /\ Len(downloadTasks) = 1
  /\ nextGid = 4

\* C8: removeDownloadTask(gid) and batchRemoveDownloadTasks(gids) never raise
\* and notify nothing; afterwards no record has the given handle(s) and every
\* other record is as before, whether the daemon call succeeds or fails; a
\* handle that is not stored leaves the store as it is.
C8RemoveAlwaysUpdates ==
  [][/\ lastOp'.op = "removeDownloadTask" =>
        \A gid \in Gids :
          removeDownloadTask(gid, lastOp'.res = "ok") =>
            /\ lastOp'.res \in {"ok", "logged"}
            /\ lastOp'.notified = 0
            /\ gid \notin GidsOf(downloadTasks')
            /\ Len(downloadTasks') =
                 Cardinality({i \in 1..Len(downloadTasks) :
                                downloadTasks[i].gid # gid})
            /\ \A i \in 1..Len(downloadTasks) :
                 downloadTasks[i].gid # gid =>
                   \E k \in 1..Len(downloadTasks') :
                      downloadTasks'[k] = downloadTasks[i]
            /\ gid \notin GidsOf(downloadTasks) => downloadTasks' = downloadTasks
     /\ lastOp'.op = "batchRemoveDownloadTasks" =>
        \A gids \in GidSets :
          batchRemoveDownloadTasks(gids, lastOp'.res = "ok") =>
            /\ lastOp'.res \in {"ok", "logged"}
            /\ lastOp'.notified = 0
            /\ GidsOf(downloadTasks') \cap gids = {}
            /\ Len(downloadTasks') =
                 Cardinality({i \in 1..Len(downloadTasks) :
                                downloadTasks[i].gid \notin gids})
            /\ \A i \in 1..Len(downloadTasks) :
                 downloadTasks[i].gid \notin gids =>
                   \E k \in 1..Len(downloadTasks') :
                      downloadTasks'[k] = downloadTasks[i]
            /\ GidsOf(downloadTasks) \cap gids = {}
                 => downloadTasks' = downloadTasks]_vars

\* a removal whose daemon call failed has just left one of two records
C8Witness ==
  /\ lastOp = Op("removeDownloadTask", "logged", 0)
  /\ Len(downloadTasks) = 1
  /\ nextGid = 3
  /\ \A s \in Slots : calls[s] = Idle

\* C9: redownloadTask(gid) and batchRedownloadTask(gids) fail with NotFound
\* and change nothing when no stored record matches; otherwise the matching
\* records are removed and a create is entered for their medias, and the
\* record it stores has a handle no stored record has and the default
\* ariaRetryCountRemains.
C9Redownload ==
  [][/\ lastOp'.op = "redownloadTask" =>
        \A gid \in Gids :
          redownloadTask(gid) =>
            IF gid \notin GidsOf(downloadTasks)
            THEN /\ lastOp'.res = "NotFound"
                 /\ UNCHANGED <<downloadTasks, autoSyncTaskIds, nextGid, calls>>
            ELSE /\ gid \notin GidsOf(downloadTasks')
                 /\ \E s \in Slots :
                      /\ calls[s] = Idle
                      /\ calls'[s].op = "createDownloadTask"
                      /\ calls'[s].params =
                           <<downloadTasks[findIndex(downloadTasks, gid)].media>>
     /\ lastOp'.op = "batchRedownloadTask" =>
        \A gids \in GidSets :
          batchRedownloadTask(gids) =>
            IF GidsOf(downloadTasks) \cap gids = {}
            THEN /\ lastOp'.res = "NotFound"
                 /\ UNCHANGED <<downloadTasks, autoSyncTaskIds, nextGid, calls>>
            ELSE /\ GidsOf(downloadTasks') \cap gids = {}
                 /\ \E s \in Slots :
                      /\ calls[s] = Idle
                      /\ calls'[s].op = "batchCreateDownloadTask"
                      /\ {calls'[s].params[i] : i \in 1..Len(calls'[s].params)} =
                           {downloadTasks[i].media : i \in
                              {k \in 1..Len(downloadTasks) :
                                 downloadTasks[k].gid \in gids}}
     /\ \A s \in Slots :
          (/\ calls[s].via \in {"redownloadTask", "batchRedownloadTask"}
           /\ calls'[s] = Idle
           /\ lastOp'.res = "ok") =>
             /\ Len(downloadTasks') > Len(downloadTasks)
             /\ \A k \in (Len(downloadTasks) + 1)..Len(downloadTasks') :
                  /\ downloadTasks'[k].ariaRetryCountRemains = DefaultRetry
                  /\ downloadTasks'[k].gid \notin GidsOf(downloadTasks) \cup {NoGid}
             /\ calls[s].op = "createDownloadTask" =>
                  downloadTasks'[Len(downloadTasks')].media = Head(calls[s].params)
    ]_vars

\* the record of handle 1, whose counter was below the default, has been
\* redownloaded: the only record is the new one, of handle 2
C9Witness ==
  /\ lastOp = OpVia("createDownloadTask.tellStatus", "ok", 0, "redownloadTask")
  /\ nextGid = 3
  /\ Len(downloadTasks) = 1
  /\ downloadTasks[1].gid = 2
  /\ downloadTasks[1].ariaRetryCountRemains = DefaultRetry

\* C10: the poller reschedules itself after every tick - with no ids, after
\* a merge, and when the daemon status query fails: in every reachable state
\* its timer is pending or its tick is suspended at an await.
C10PollerNeverStops ==
  poller.pc \in {"timer", "tellStatus", "merge"}

\* the status query of a tick has just been answered and the poller goes on
C10Witness ==
  /\ lastOp = Op("scheduleAutoSyncTasks.merge", "ok", 0)
  /\ poller = PollerTimer
  /\ autoSyncTaskIds # {}

\* C10, the part the code keeps: the tick reschedules itself when there are
\* no ids and after a merge
C10ReschedulesWithoutFailure ==
  [][/\ (scheduleAutoSyncTasks /\ autoSyncTaskIds = {}) => poller'.pc = "timer"
     /\ scheduleAutoSyncTasksMerge => poller'.pc = "timer"]_vars

\* C11: a task the Scheduler marked active is removed by the Scheduler when
\* its runCreationTask settles - returned normally, returned on cancellation
\* or thrown - and never by the Runner's own steps; a throw raises one failure
\* notification; the Scheduler requests its next callback in each case, so
\* that after a failure a task is eventually run unless the queue empties.
C11SchedulerCleansUp ==
  /\ [][/\ lastOp'.op = "scheduleCreationTasks.settled" =>
             \E r \in runs :
                /\ runs' = runs \ {r}
                /\ \A i \in 1..Len(creationTasks') :
                     creationTasks'[i].id # r.task.id
                /\ r.task.id \notin creationTaskAbortControllerMap'
                /\ sched' = sched + 1
                /\ lastOp'.res \in {"completed", "cancelled", "failed"}
                /\ lastOp'.notified = (IF lastOp'.res = "failed" THEN 1 ELSE 0)
        /\ runs' # runs /\ runs' \subseteq runs =>
             lastOp'.op = "scheduleCreationTasks.settled"
        /\ lastOp'.op = "runCreationTask" =>
             /\ Len(creationTasks') = Len(creationTasks)
             /\ \A i \in 1..Len(creationTasks) :
                  creationTasks'[i].id = creationTasks[i].id
             /\ creationTaskAbortControllerMap' = creationTaskAbortControllerMap
             /\ aborted' = aborted]_vars
  /\ [](lastOp.res = "failed" =>
          <>(\/ creationTasks = <<>>
             \/ \E i \in 1..Len(creationTasks) :
                  creationTasks[i].status = "active"))

\* a Runner has just thrown with a task queued behind its own
C11Witness ==
  /\ lastOp.op = "scheduleCreationTasks.settled"
  /\ lastOp.res = "failed"
  /\ lastOp.notified = 1
  /\ Len(creationTasks) = 1
  /\ creationTasks[1].id = 2
  /\ creationTasks[1].status = "waiting"
  /\ sched = 1

\* C12: in every reachable state the keys of creationTaskAbortControllerMap
\* are exactly the ids of the records of creationTasks, each id once, so the
\* Scheduler finds a controller for the head of the queue.
C12TokensMatchTasks ==
  /\ creationTaskAbortControllerMap =
       {creationTasks[i].id : i \in 1..Len(creationTasks)}
  /\ \A i \in 1..Len(creationTasks), j \in 1..Len(creationTasks) :
       creationTasks[i].id = creationTasks[j].id => i = j
  /\ creationTasks # <<>> =>
       Head(creationTasks).id \in creationTaskAbortControllerMap

\* the active task has just been removed while its Runner is suspended, a
\* second task waiting
C12Witness ==
  /\ lastOp = Op("removeCreationTask", "ok", 0)
  /\ runs # {}
  /\ \A r \in runs : r.task.id \notin creationTaskAbortControllerMap
  /\ Len(creationTasks) = 1
  /\ creationTaskAbortControllerMap = {2}

\* C13: each time the Runner has processed a page and published its
\* progress, completeCount + skipCount equals the number of media entries on
\* all the pages processed so far - every entry dropped by the post filter,
\* by the media-type filter or because its file exists counts as skipped -
\* and the published counters are the Runner's.
C13CountersAddUp ==
  \A r \in runs :
     (r.pc = "fetch" /\ r.pages > 0) =>
        /\ r.completeCount + r.skipCount = r.seen
        /\ \A i \in 1..Len(creationTasks) :
             creationTasks[i].id = r.task.id =>
               /\ creationTasks[i].completeCount = r.completeCount
               /\ creationTasks[i].skipCount = r.skipCount

\* a page with media entries has been processed and published with both
\* counters at 0
C13Witness ==
  \E r \in runs :
     /\ r.pc = "fetch"
     /\ r.pages = 1
     /\ r.seen > 0
     /\ r.completeCount + r.skipCount = 0
     /\ \E i \in 1..Len(creationTasks) :
          /\ creationTasks[i].id = r.task.id
          /\ creationTasks[i].completeCount + creationTasks[i].skipCount = 0

\* C13, the part the code keeps: the published counters are the Runner's,
\* they never exceed the entries seen, and what is missing from their sum
\* is at most the entries of the pages, those dropped by the media-type
\* filter
C13CountersBounded ==
  \A r \in runs :
     (r.pc = "fetch" /\ r.pages > 0) =>
        /\ r.completeCount + r.skipCount <= r.seen
        /\ \A i \in 1..Len(creationTasks) :
             creationTasks[i].id = r.task.id =>
               /\ creationTasks[i].completeCount = r.completeCount
               /\ creationTasks[i].skipCount = r.skipCount

\* C14 (as claimed): the Runner issues a fetch only while its token is not
\* tripped; a fetch that returns to a tripped token makes the Runner return
\* with nothing submitted; the Runner's own steps never remove a creation
\* task or a token; and batchCreateDownloadTask is never called once the
\* token has been tripped.
C14NoBatchAfterCancel ==
  [][/\ \A r2 \in runs' \ runs :
          r2.pc \in {"fetch", "submit"} => r2.task.id \notin aborted'
     /\ \A r \in runs :
          (r.pc = "fetch" /\ r.task.id \in aborted /\ r \notin runs') =>
             /\ lastOp'.op = "scheduleCreationTasks.settled"
             /\ runs' = runs \ {r}
     /\ lastOp'.op = "runCreationTask" =>
          /\ Len(creationTasks') = Len(creationTasks)
          /\ creationTaskAbortControllerMap' = creationTaskAbortControllerMap
          /\ aborted' = aborted]_vars

\* C14 (amended): the token is looked at before each fetch, when a fetch
\* returns and when a submission resolves, and at no other point.  A fetch is
\* issued, and the preparation of a page's entries begun, only while the
\* token is not tripped; a fetch or a submission that returns to a tripped
\* token makes the Runner return; the Runner's own steps never remove a
\* creation task or a token; and batchCreateDownloadTask is called only on
\* leaving the preparation of a page, whether or not the token was tripped
\* meanwhile.
C14CancelSeenAtChecks ==
  [][/\ \A r2 \in runs' \ runs :
          /\ r2.pc \in {"fetch", "prepare"} => r2.task.id \notin aborted'
          /\ r2.pc = "submit" =>
               \E r \in runs \ runs' :
                  r.pc = "prepare" /\ r.task.id = r2.task.id
     /\ \A r \in runs :
          (r.pc \in {"fetch", "submit"} /\ r.task.id \in aborted
             /\ r \notin runs') =>
             /\ lastOp'.op = "scheduleCreationTasks.settled"
             /\ runs' = runs \ {r}
     /\ lastOp'.op = "runCreationTask" =>
          /\ Len(creationTasks') = Len(creationTasks)
          /\ creationTaskAbortControllerMap' = creationTaskAbortControllerMap
          /\ aborted' = aborted]_vars

\* the Runner has just called batchCreateDownloadTask for a task whose
\* token was tripped while the page's entries were being prepared
C14Witness ==
  /\ lastOp = Op("runCreationTask", "submit", 0)
  /\ \E r \in runs : r.pc = "submit" /\ r.task.id \in aborted

\* C15: after a fetch that returned a null cursor, or a page whose last item
\* is not after the lower date bound - with or without surviving items - the
\* Runner issues no further fetch; a Runner that is back at a fetch after a
\* page has published its counters to the store; and, the source returning
\* such a page in the end and every call returning, each Runner terminates.
C15StopsAndPublishes ==
  /\ [][\A r2 \in runs' \ runs :
          (r2.pc = "fetch" /\ r2.pages > 0) =>
             r2.nextCursor # "null" /\ r2.now = "afterSince"]_vars
  /\ [](\A r \in runs :
          (r.pc = "fetch" /\ r.pages > 0) =>
             \A i \in 1..Len(creationTasks) :
                creationTasks[i].id = r.task.id =>
                   creationTasks[i] =
                     [r.task EXCEPT !.completeCount = r.completeCount,
                                    !.skipCount = r.skipCount])
  /\ [](runs # {} => <>(runs = {}))

\* the Runner has just left its loop, not cancelled, straight from a fetch
\* whose page had no surviving item, and the Scheduler has removed its task
C15Witness ==
  /\ lastOp = OpVia("scheduleCreationTasks.settled", "completed", 0, "fetch")
  /\ runs = {}
  /\ nextId = 2
  /\ creationTasks = <<>>

\* C16: creation tasks run in insertion order.  The queue is kept in
\* insertion order; the task the Scheduler activates is the oldest task of
\* the queue, with no task active; so no waiting task of the queue is older
\* than an active one; and, every Runner returning or throwing, each waiting
\* task is eventually activated or removed.
C16Fifo ==
  /\ [](\A i \in 1..Len(creationTasks), j \in 1..Len(creationTasks) :
          /\ i < j => creationTasks[i].id < creationTasks[j].id
          /\ (creationTasks[i].status = "waiting"
                /\ creationTasks[j].status = "active") =>
               creationTasks[j].id < creationTasks[i].id)
  /\ [][\A j \in 1..Len(creationTasks') :
          (/\ creationTasks'[j].status = "active"
           /\ \E i \in 1..Len(creationTasks) :
                /\ creationTasks[i].id = creationTasks'[j].id
                /\ creationTasks[i].status = "waiting") =>
             /\ creationTasks'[j].id = creationTasks[1].id
             /\ \A i \in 1..Len(creationTasks) :
                  /\ creationTasks[i].status # "active"
                  /\ creationTasks[i].id >= creationTasks[1].id]_vars
  /\ \A id \in 1..MaxCreations :
       [](  (\E i \in 1..Len(creationTasks) :
               creationTasks[i].id = id /\ creationTasks[i].status = "waiting")
         => <>(~ \E i \in 1..Len(creationTasks) :
               creationTasks[i].id = id /\ creationTasks[i].status = "waiting"))

\* the second task of the queue is activated after the first one has gone
C16Witness ==
  /\ lastOp.op = "scheduleCreationTasks"
  /\ Len(creationTasks) = 1
  /\ creationTasks[1].id = 2
  /\ creationTasks[1].status = "active"
  /\ \E r \in runs : r.task.id = 2

\* C17: when updateDownloadTask accepts the record of a non-error
\* syncDownloadTaskStatus, the stored record is replaced whole by the merged
\* record and its updatedAt is the comparison timestamp, the time taken
\* before the daemon was asked.
C17StampIsComparisonTime ==
  [][(lastOp'.op = "syncDownloadTaskStatus.update" /\ lastOp'.res = "ok") =>
       \E s \in Slots :
          /\ At(s, "syncDownloadTaskStatus", "merge")
          /\ calls'[s] = Idle
          /\ LET i == findIndex(downloadTasks, calls[s].newTask.gid) IN
             /\ downloadTasks'[i] = calls[s].newTask
             /\ downloadTasks'[i].updatedAt = calls[s].now]_vars

\* an accepted merge has just stored a record stamped after the time the
\* call took before asking the daemon
C17Witness ==
  /\ lastOp = Op("syncDownloadTaskStatus.update", "ok", 0)
  /\ \E i \in 1..Len(downloadTasks) : downloadTasks[i].updatedAt = MaxTime

\* C17, the part that holds: an accepted merge replaces the stored record
\* whole by the merged record, whose updatedAt is not before the comparison
\* timestamp.
C17ReplacedWhole ==
  [][(lastOp'.op = "syncDownloadTaskStatus.update" /\ lastOp'.res = "ok") =>
       \E s \in Slots :
          /\ At(s, "syncDownloadTaskStatus", "merge")
          /\ calls'[s] = Idle
          /\ LET i == findIndex(downloadTasks, calls[s].newTask.gid) IN
             /\ downloadTasks'[i] = calls[s].newTask
             /\ downloadTasks'[i].updatedAt >= calls[s].now]_vars

\* C18: on a retry the record stored for the resubmitted job carries the new
\* handle and the status the daemon reports for that new handle - the
\* status query is made for the new handle, not the failed one - and the
\* failed handle has no record in the store.
C18RetryStoresNewHandleStatus ==
  [][(/\ lastOp'.op = "syncDownloadTaskStatus.retry.tellStatus"
      /\ lastOp'.res = "ok") =>
       \E s \in Slots :
          /\ At(s, "syncDownloadTaskStatus", "retry.tellStatus")
          /\ calls'[s] = Idle
          /\ calls[s].gids = <<calls[s].newTask.gid>>
          /\ calls[s].newTask.gid # calls[s].task.gid
          /\ \E status \in DaemonStatuses :
               downloadTasks'[Len(downloadTasks')] =
                 [calls[s].newTask EXCEPT !.status = status]
          /\ findIndex(downloadTasks', calls[s].task.gid) = 0]_vars

\* a retry has just stored the record of the new handle with the status
\* "error" that the daemon reported for the failed handle
C18Witness ==
  /\ lastOp = Op("syncDownloadTaskStatus.retry.tellStatus", "ok", 0)
  /\ downloadTasks # <<>>
  /\ downloadTasks[Len(downloadTasks)].status = "error"
  /\ downloadTasks[Len(downloadTasks)].ariaRetryCountRemains = DefaultRetry - 1

\* C18, the part that holds: the stored record carries the new handle, and
\* the failed handle has no record in the store.
C18RetryStoresNewHandle ==
  [][(/\ lastOp'.op = "syncDownloadTaskStatus.retry.tellStatus"
      /\ lastOp'.res = "ok") =>
       \E s \in Slots :
          /\ At(s, "syncDownloadTaskStatus", "retry.tellStatus")
          /\ calls'[s] = Idle
          /\ calls[s].newTask.gid # calls[s].task.gid
          /\ downloadTasks'[Len(downloadTasks')].gid = calls[s].newTask.gid
          /\ findIndex(downloadTasks', calls[s].task.gid) = 0]_vars

\* C19: a poller tick changes only stored records that are present in the
\* daemon's response and whose updatedAt does not exceed the tick's snapshot
\* time, and stamps those with the snapshot time; records absent from the
\* response are left as they are; and the tick neither adds nor removes a
\* record, whatever was created or removed while it was suspended.
C19TickFrame ==
  [][lastOp'.op = "scheduleAutoSyncTasks.merge" =>
       /\ Len(downloadTasks') = Len(downloadTasks)
       /\ \A i \in 1..Len(downloadTasks) :
            /\ downloadTasks'[i].gid = downloadTasks[i].gid
            /\ downloadTasks'[i] # downloadTasks[i] =>
                 /\ downloadTasks[i].gid \in DOMAIN poller.resultMap
                 /\ poller.resultMap[downloadTasks[i].gid] # "absent"
                 /\ downloadTasks[i].updatedAt <= poller.now
                 /\ downloadTasks'[i].updatedAt = poller.now]_vars

\* a tick that merged one record has just finished, the other record
\* standing as the tick read it, in error
C19Witness ==
  /\ lastOp = Op("scheduleAutoSyncTasks.merge", "ok", 0)
  /\ Len(downloadTasks) = 2
  /\ downloadTasks[1].status = "error"
  /\ downloadTasks[1].updatedAt = 0
  /\ downloadTasks[2].status = "active"

\* C19, the part that holds: the tick neither adds nor removes a record, and
\* a record it changes becomes the record the tick built for its handle - a
\* merge stamped with the snapshot time, or the copy the tick read - never
\* one stamped before the stored record.
C19TickKeepsRecords ==
  [][lastOp'.op = "scheduleAutoSyncTasks.merge" =>
       /\ Len(downloadTasks') = Len(downloadTasks)
       /\ \A i \in 1..Len(downloadTasks) :
            /\ downloadTasks'[i].gid = downloadTasks[i].gid
            /\ downloadTasks'[i] # downloadTasks[i] =>
                 /\ downloadTasks'[i].updatedAt >= downloadTasks[i].updatedAt
                 /\ \E j \in 1..Len(poller.newTasks) :
                      poller.newTasks[j] = downloadTasks'[i]]_vars

\* C20: in every reachable state every id of autoSyncTaskIds is the gid of a
\* record of downloadTasks, the ids handed to setAutoSyncTaskIds being
\* stored handles - also after removeDownloadTask, batchRemoveDownloadTasks,
\* a redownload and the retry replacement of a tracked handle.
C20AutoSyncIdsStored ==
  autoSyncTaskIds \subseteq GidsOf(downloadTasks)

\* batchRemoveDownloadTasks has just removed the record of a tracked handle
C20Witness ==
  /\ lastOp.op = "batchRemoveDownloadTasks"
  /\ \E gid \in autoSyncTaskIds : gid \notin GidsOf(downloadTasks)

\* C20, the part that holds: every step but those of batchRemoveDownloadTasks
\* and batchRedownloadTask keeps the auto-sync set within the stored handles.
C20KeptBySingleOperations ==
  [][(/\ autoSyncTaskIds \subseteq GidsOf(downloadTasks)
      /\ lastOp'.op \notin {"batchRemoveDownloadTasks", "batchRedownloadTask"})
       => autoSyncTaskIds' \subseteq GidsOf(downloadTasks')]_vars

\* C21: two syncDownloadTaskStatus calls for the same handle that both see
\* the error of a record with retries left resubmit the failed job at most
\* once: no two calls are resubmitting the same failed record, and the store
\* never holds two records for the same source media.
C21ResubmittedOnce ==
  /\ \A s \in Slots, t \in Slots :
       (/\ s # t
        /\ calls[s].op = "syncDownloadTaskStatus"
        /\ calls[t].op = "syncDownloadTaskStatus"
        /\ calls[s].pc \in {"retry.prepare", "retry.addUri", "retry.tellStatus"}
        /\ calls[t].pc \in {"retry.prepare", "retry.addUri", "retry.tellStatus"})
          => calls[s].task.gid # calls[t].task.gid
  /\ \A i \in 1..Len(downloadTasks), j \in 1..Len(downloadTasks) :
       i # j => downloadTasks[i].media # downloadTasks[j].media

\* two calls for handle 1 have each stored a replacement of the same failed
\* record: two records of the same media, handles 2 and 3, the same counter
C21Witness ==
  /\ lastOp = Op("syncDownloadTaskStatus.retry.tellStatus", "ok", 0)
  /\ Len(downloadTasks) = 2
  /\ {downloadTasks[1].gid, downloadTasks[2].gid} = {2, 3}
  /\ downloadTasks[1].media = downloadTasks[2].media
  /\ downloadTasks[1].ariaRetryCountRemains =
       downloadTasks[2].ariaRetryCountRemains

\* C22: a record removed while a syncDownloadTaskStatus call for its handle
\* is suspended stays removed: the call, resuming with an error or with
\* another status, leaves downloadTasks as it is and does not enter the
\* resubmission of the job.
C22RemovedStaysRemoved ==
  [][\A s \in Slots :
       (/\ calls[s].op = "syncDownloadTaskStatus"
        /\ calls[s].pc \in {"tellStatus", "merge"}
        /\ findIndex(downloadTasks, calls[s].gid) = 0
        /\ calls'[s] # calls[s]) =>
          /\ downloadTasks' = downloadTasks
          /\ nextGid' = nextGid
          /\ calls'[s].pc \notin {"retry.prepare", "retry.addUri",
                                  "retry.tellStatus"}]_vars

\* the only record was removed while a call for its handle was suspended at
\* the status query; the call has just seen the error and has entered the
\* resubmission of the removed record's job
C22Witness ==
  /\ lastOp = OpVia("syncDownloadTaskStatus.tellStatus", "retry", 0, "removed")
  /\ downloadTasks = <<>>
  /\ nextGid = 2
  /\ InFlight = 1
  /\ \E s \in Slots : At(s, "syncDownloadTaskStatus", "retry.prepare")

\* C22, the part that holds: resuming with a status other than error, or
\* with an error and no retry left, the call leaves downloadTasks as it is
\* and resubmits nothing.
C22NonErrorStaysRemoved ==
  [][\A s \in Slots :
       (/\ calls[s].op = "syncDownloadTaskStatus"
        /\ calls[s].pc \in {"tellStatus", "merge"}
        /\ findIndex(downloadTasks, calls[s].gid) = 0
        /\ calls'[s] # calls[s]
        /\ lastOp'.res # "retry") =>
          /\ downloadTasks' = downloadTasks
          /\ nextGid' = nextGid
          /\ calls'[s].pc \notin {"retry.prepare", "retry.addUri",
                                  "retry.tellStatus"}]_vars

====
